---- MODULE Spec2Model ----
(***************************************************************************)
(* The chat server of src/backend/app.py: the session registry             *)
(* (active_users), the room directory (chat_rooms), the Flask-SocketIO     *)
(* room membership that broadcasts are addressed to, the Socket.IO event   *)
(* handlers and the background AI threads.                                 *)
(*                                                                         *)
(* Strings are sequences of symbols.  The symbol " " is whitespace; the    *)
(* symbols "@", "a", "i", "A", "I", "h" are characters of message texts;   *)
(* a user name or a room name is one symbol per word ("alice", "tech"),    *)
(* because the code only strips, compares and stores names.  Timestamps    *)
(* (datetime.now()) are written by the code and never read: they are left  *)
(* out of the records.                                                     *)
(***************************************************************************)
EXTENDS Naturals, Sequences, FiniteSets, Bags, TLC

VARIABLES
    connected,      \* connection ids whose Socket.IO connection is open
    active_users,   \* app.py:37   sid -> [username, room]
    chat_rooms,     \* app.py:38   room -> list of sids
    sio_rooms,      \* Flask-SocketIO rooms (join_room/leave_room): set of <<room, sid>>
    ai_threads,     \* bag of started, unfinished generate_and_send_ai_response threads
    request,        \* the event whose handler ran last (flask.request), or the AI thread
    emitted,        \* what the handler or thread that ran last emitted, in order
    before_join,    \* history: the registry before the join that ran last, when it was the
                    \* connection's first join or repeated the join before it
    threads,        \* handlers running as interleaved threads (SpecThreads only)
    epoch,          \* registry at the last quiescent point, and the handlers started since
    submitted,      \* history: the AI thread started last, who started it and the room's
                    \* members at that time (SpecTracked only)
    startup         \* app.py:40-57, 350-363   where the start of the server is, with
                    \* retry_count and the number of requests sent (SpecStartup only)

vars == <<connected, active_users, chat_rooms, sio_rooms, ai_threads, request, emitted,
          before_join, threads, epoch, submitted, startup>>

----------------------------------------------------------------------------
(* Bounds *)

MaxConns == 2
MaxJobs == 1
MaxThreads == 2

Sids == 1..MaxConns

----------------------------------------------------------------------------
(* Strings *)

EmptyStr == <<>>
Absent == <<"<absent>">>          \* the key is missing from the event's data

general == <<"general">>
tech == <<"tech">>
random == <<"random">>
lobby == <<"lobby">>
alice == <<"alice">>
bob == <<"bob">>

\* dict.get(key, default)
Get(field, default) == IF field = Absent THEN default ELSE field

RECURSIVE LStrip(_)
LStrip(s) == IF s # <<>> /\ Head(s) = " " THEN LStrip(Tail(s)) ELSE s

RECURSIVE RStrip(_)
RStrip(s) ==
    IF s # <<>> /\ s[Len(s)] = " " THEN RStrip(SubSeq(s, 1, Len(s) - 1)) ELSE s

\* str.strip()
Strip(s) == RStrip(LStrip(s))

LowerChar(ch) == CASE ch = "A" -> "a" [] ch = "I" -> "i" [] OTHER -> ch

\* str.lower()
Lower(s) == [k \in 1..Len(s) |-> LowerChar(s[k])]

\* str.startswith(t)
StartsWith(s, t) == Len(s) >= Len(t) /\ SubSeq(s, 1, Len(t)) = t

\* t in s
Contains(s, t) ==
    \E k \in 1..(Len(s) + 1) : k + Len(t) - 1 <= Len(s) /\ SubSeq(s, k, k + Len(t) - 1) = t

\* s.replace(t, r) for a non-empty t: every non-overlapping occurrence, left to right
RECURSIVE Replace(_, _, _)
Replace(s, t, r) ==
    IF s = <<>> THEN <<>>
    ELSE IF StartsWith(s, t) THEN r \o Replace(SubSeq(s, Len(t) + 1, Len(s)), t, r)
    ELSE <<Head(s)>> \o Replace(Tail(s), t, r)

AtAi == <<"@", "a", "i">>

----------------------------------------------------------------------------
(* Lists and dicts *)

\* x in list
InList(x, l) == \E k \in 1..Len(l) : l[k] = x

\* list.remove(x): removes the first occurrence (x is in the list)
ListRemove(l, x) ==
    LET k == CHOOSE j \in 1..Len(l) : l[j] = x /\ \A m \in 1..(j - 1) : l[m] # x
    IN  SubSeq(l, 1, k - 1) \o SubSeq(l, k + 1, Len(l))

\* list.append(x)
ListAppend(l, x) == Append(l, x)

\* d[k] = v
DictPut(d, k, v) == [j \in DOMAIN d \cup {k} |-> IF j = k THEN v ELSE d[j]]

\* del d[k]
DictDel(d, k) == [j \in DOMAIN d \ {k} |-> d[j]]

----------------------------------------------------------------------------
(* The transport: who receives an emit *)

\* the connections in a Flask-SocketIO room whose connection is open
Participants(s, room) == {sid \in s.connected : <<room, sid>> \in s.sio_rooms}

\* emit(event, data) inside a handler: to the requesting connection
ToSelf(s, sid) == {sid} \cap s.connected

\* emit(event, data, room=room)
ToRoom(s, room) == Participants(s, room)

\* emit(event, data, room=room, include_self=False)
ToRoomSkipSelf(s, room, sid) == Participants(s, room) \ {sid}

\* join_room(room)
join_room(s, room, sid) == [s EXCEPT !.sio_rooms = @ \cup {<<room, sid>>}]

\* leave_room(room)
leave_room(s, room, sid) == [s EXCEPT !.sio_rooms = @ \ {<<room, sid>>}]

\* the server closes a disconnected connection: it leaves every room
close_connection(s, sid) ==
    [s EXCEPT !.connected = @ \ {sid},
              !.sio_rooms = {p \in @ : p[2] # sid}]

\* the server state the handlers read and write
Server ==
    [connected |-> connected, active_users |-> active_users,
     chat_rooms |-> chat_rooms, sio_rooms |-> sio_rooms]

----------------------------------------------------------------------------
(* Events *)

StatusEvent(to, msg) == [event |-> "status", to |-> to, msg |-> msg]

ErrorEvent(to, msg) == [event |-> "error", to |-> to, msg |-> msg]

MessageEvent(to, username, message, type) ==
    [event |-> "message", to |-> to, username |-> username, message |-> message,
     type |-> type]

UserJoinedEvent(to, username) == [event |-> "user_joined", to |-> to, username |-> username]

UserLeftEvent(to, username) == [event |-> "user_left", to |-> to, username |-> username]

RoomInfoEvent(to, room, users) ==
    [event |-> "room_info", to |-> to, room |-> room, users |-> users,
     user_count |-> Len(users)]

RoomsListEvent(to, rooms_info) == [event |-> "rooms_list", to |-> to, rooms |-> rooms_info]

\* the POST to OLLAMA_URL/api/generate that carries the prompt
GenerateRequest(prompt) == [event |-> "generate", to |-> {}, prompt |-> prompt]

System == <<"System">>
AIAssistant == <<"AI Assistant">>

----------------------------------------------------------------------------
(* The handlers, as functions of the server state *)

\* [active_users[sid]['username'] for sid in user_sids if sid in active_users]
RECURSIVE Usernames(_, _)
Usernames(s, user_sids) ==
    IF user_sids = <<>> THEN <<>>
    ELSE (IF Head(user_sids) \in DOMAIN s.active_users
          THEN <<s.active_users[Head(user_sids)].username>> ELSE <<>>)
         \o Usernames(s, Tail(user_sids))

\* handle_connect
handle_connect(s, sid) ==
    [state |-> s, emitted |-> <<StatusEvent(ToSelf(s, sid), "Connected to chat server")>>]

\* a disconnect that forgets the room's member list
disconnect_keep_in_room(s, sid, room) == s

\* handle_disconnect, lines 157-158
disconnect_remove_from_room(s, sid, room) ==
    IF room \in DOMAIN s.chat_rooms /\ InList(sid, s.chat_rooms[room])
    THEN [s EXCEPT !.chat_rooms[room] = ListRemove(@, sid)]
    ELSE s

\* a user_left notice that goes to the requesting connection instead of the room
disconnect_notify_self(s, sid, room, username) ==
    <<UserLeftEvent({sid}, username)>>

\* handle_disconnect, lines 165-168
disconnect_notify(s, sid, room, username) ==
    <<UserLeftEvent(ToRoom(s, room), username)>>

\* a disconnect that does not test for a session and falls back to defaults
handle_disconnect_without_test(s, sid) ==
    LET known == sid \in DOMAIN s.active_users
        username == IF known THEN s.active_users[sid].username ELSE <<"Unknown">>
        room == IF known THEN s.active_users[sid].room ELSE general
        s1 == disconnect_remove_from_room(s, sid, room)
        s2 == [s1 EXCEPT !.active_users = DictDel(@, sid)]
    IN  [state |-> s2, emitted |-> disconnect_notify(s2, sid, room, username)]

\* handle_disconnect
handle_disconnect(s, sid) ==
    IF sid \in DOMAIN s.active_users
    THEN LET username == s.active_users[sid].username
             room == s.active_users[sid].room
             s1 == disconnect_remove_from_room(s, sid, room)
             s2 == [s1 EXCEPT !.active_users = DictDel(@, sid)]
         IN  [state |-> s2, emitted |-> disconnect_notify(s2, sid, room, username)]
    ELSE [state |-> s, emitted |-> <<>>]

\* a join that forgets to leave the previous room
join_keep_previous_room(s, sid) == s

\* a join that takes the sid off the previous room's list and stays in its transport room
join_leave_list_only(s, sid) ==
    IF sid \in DOMAIN s.active_users
    THEN LET old_room == s.active_users[sid].room
         IN  IF old_room \in DOMAIN s.chat_rooms /\ InList(sid, s.chat_rooms[old_room])
             THEN [s EXCEPT !.chat_rooms[old_room] = ListRemove(@, sid)]
             ELSE s
    ELSE s

\* handle_join, lines 188-193
join_leave_previous_room(s, sid) ==
    IF sid \in DOMAIN s.active_users
    THEN LET old_room == s.active_users[sid].room
         IN  IF old_room \in DOMAIN s.chat_rooms /\ InList(sid, s.chat_rooms[old_room])
             THEN leave_room([s EXCEPT !.chat_rooms[old_room] = ListRemove(@, sid)],
                             old_room, sid)
             ELSE s
    ELSE s

\* handle_join, lines 196-200
join_store_user_info(s, sid, username, room) ==
    [s EXCEPT !.active_users = DictPut(@, sid, [username |-> username, room |-> room])]

\* handle_join, lines 203-208
join_add_to_room(s, sid, room) ==
    LET s1 == join_room(s, room, sid)
        s2 == IF room \notin DOMAIN s1.chat_rooms
              THEN [s1 EXCEPT !.chat_rooms = DictPut(@, room, <<>>)]
              ELSE s1
    IN  IF ~InList(sid, s2.chat_rooms[room])
        THEN [s2 EXCEPT !.chat_rooms[room] = ListAppend(@, sid)]
        ELSE s2

\* a join whose user_joined notice is not kept from the joining connection
join_emits_to_whole_room(s, sid, username, room) ==
    << MessageEvent(ToSelf(s, sid), System,
                    <<"Welcome to ">> \o room \o <<" room, ">> \o username \o <<"!">>,
                    "system"),
       UserJoinedEvent(ToRoom(s, room), username),
       RoomInfoEvent(ToSelf(s, sid), room, Usernames(s, s.chat_rooms[room])) >>

\* handle_join, lines 211-234
join_emits(s, sid, username, room) ==
    << MessageEvent(ToSelf(s, sid), System,
                    <<"Welcome to ">> \o room \o <<" room, ">> \o username \o <<"!">>,
                    "system"),
       UserJoinedEvent(ToRoomSkipSelf(s, room, sid), username),
       RoomInfoEvent(ToSelf(s, sid), room, Usernames(s, s.chat_rooms[room])) >>

\* the username taken as sent, blanks included
JoinUsernameUntrimmed(data) == Get(data.username, EmptyStr)

\* handle_join, line 176
JoinUsernameOf(data) == Strip(Get(data.username, EmptyStr))

\* handle_join, line 177
JoinRoomOf(data) == Strip(Get(data.room, general))

\* handle_join
handle_join(s, sid, data) ==
    LET username == JoinUsernameOf(data)
        room == JoinRoomOf(data)
    IN  IF username = EmptyStr
        THEN [state |-> s, emitted |-> <<ErrorEvent(ToSelf(s, sid), "Username is required")>>]
        ELSE LET s1 == join_leave_previous_room(s, sid)
                 s2 == join_store_user_info(s1, sid, username, room)
                 s3 == join_add_to_room(s2, sid, room)
             IN  [state |-> s3, emitted |-> join_emits(s3, sid, username, room)]

\* a trigger test that forgets to lower the message
should_trigger_ai_case_sensitive(message) ==
    StartsWith(message, AtAi) \/ Contains(message, AtAi)

\* handle_message, lines 268-270
should_trigger_ai(message) ==
    StartsWith(Lower(message), AtAi) \/ Contains(Lower(message), AtAi)

\* generate_and_send_ai_response, lines 277-279
ai_prompt(message) ==
    LET p == Strip(Replace(message, AtAi, EmptyStr))
    IN  IF p = EmptyStr THEN message ELSE p

\* a not-joined error that is broadcast to every open connection
not_joined_error_to_all(s, sid) ==
    <<ErrorEvent(s.connected, "You must join a room first")>>

\* handle_message, line 242
not_joined_error(s, sid) ==
    <<ErrorEvent(ToSelf(s, sid), "You must join a room first")>>

\* a user message that is not sent back to its sender
broadcast_user_message_skip_self(s, sid, username, room, message) ==
    <<MessageEvent(ToRoomSkipSelf(s, room, sid), username, message, "user")>>

\* the user's message left for the AI thread to send with its reply
broadcast_user_message_deferred(s, sid, username, room, message) == <<>>

\* handle_message, lines 257-264
broadcast_user_message(s, sid, username, room, message) ==
    <<MessageEvent(ToRoom(s, room), username, message, "user")>>

\* the response generated inside the handler, which returns when it is done
run_ai_inline(room, message) == EmptyBag

\* handle_message, line 306: the response is generated in a thread of its own,
\* which the handler starts and never joins
start_ai_thread(room, message) ==
    SetToBag({[room |-> room, message |-> message]})

\* handle_message; started: the threads it starts (line 306)
handle_message(s, sid, data) ==
    IF sid \notin DOMAIN s.active_users
    THEN [state |-> s, started |-> EmptyBag, emitted |-> not_joined_error(s, sid)]
    ELSE LET username == s.active_users[sid].username
             room == s.active_users[sid].room
             message == Strip(Get(data.message, EmptyStr))
         IN  IF message = EmptyStr
             THEN [state |-> s, started |-> EmptyBag,
                   emitted |-> <<ErrorEvent(ToSelf(s, sid), "Message cannot be empty")>>]
             ELSE [state |-> s,
                   started |-> IF should_trigger_ai(message)
                               THEN start_ai_thread(room, message)
                               ELSE EmptyBag,
                   emitted |-> broadcast_user_message(s, sid, username, room, message)]

\* handle_get_rooms, lines 311-317
rooms_info(s) ==
    [room \in DOMAIN s.chat_rooms |->
        LET active_users_in_room == Usernames(s, s.chat_rooms[room])
        IN  [user_count |-> Len(active_users_in_room), users |-> active_users_in_room]]

\* handle_get_rooms
handle_get_rooms(s, sid) ==
    [state |-> s, emitted |-> <<RoomsListEvent(ToSelf(s, sid), rooms_info(s))>>]

\* a listing that leaves out the rooms nobody is in
get_rooms_of_occupied(s) ==
    [state |-> s,
     response |-> [room \in {r \in DOMAIN s.chat_rooms : s.chat_rooms[r] # <<>>} |->
                     [user_count |-> Len(Usernames(s, s.chat_rooms[room])),
                      users |-> Usernames(s, s.chat_rooms[room])]]]

\* get_rooms, the view of GET /rooms, lines 337-348
get_rooms(s) ==
    [state |-> s,
     response |-> [room \in DOMAIN s.chat_rooms |->
                     LET user_sids == s.chat_rooms[room]
                         active_users_in_room == Usernames(s, user_sids)
                     IN  [user_count |-> Len(active_users_in_room),
                          users |-> active_users_in_room]]]

\* What the POST to the AI backend can do
LlmOutcomes == {"ok", "ok_without_response", "bad_status", "timeout", "error"}

LlmFailures == {"bad_status", "timeout", "error"}

Completion == <<"completion">>

\* generate_llm_response: the text it returns, by what the backend did
generate_llm_response(prompt, outcome) ==
    CASE outcome = "ok" -> Completion
      [] outcome = "ok_without_response" -> <<"Sorry, I could not generate a response.">>
      [] outcome = "bad_status" -> <<"Sorry, I'm having trouble connecting to the AI model.">>
      [] outcome = "timeout" -> <<"Sorry, the AI model is taking too long to respond.">>
      [] OTHER -> <<"Sorry, I encountered an error while generating a response.">>

\* an AI thread that reports a failed backend call as an error event
send_ai_response_or_error(s, room, ai_response) ==
    IF ai_response = Completion
    THEN <<MessageEvent(ToRoom(s, room), AIAssistant, ai_response, "ai")>>
    ELSE <<ErrorEvent(ToRoom(s, room), "AI request failed")>>

\* an AI thread that emits its reply without a room, so to every open connection
send_ai_response_to_all(s, room, ai_response) ==
    <<MessageEvent(s.connected, AIAssistant, ai_response, "ai")>>

\* generate_and_send_ai_response, lines 285-292
send_ai_response(s, room, ai_response) ==
    <<MessageEvent(ToRoom(s, room), AIAssistant, ai_response, "ai")>>

\* generate_and_send_ai_response: the thread started for job [room, message].
\* generate_llm_response catches every exception of the backend call, so the
\* except branch of lines 295-303 runs only when the broadcast itself raises.
generate_and_send_ai_response(s, job, outcome) ==
    LET prompt == ai_prompt(job.message)
        ai_response == generate_llm_response(prompt, outcome)
    IN  [state |-> s,
         emitted |-> <<GenerateRequest(prompt)>> \o send_ai_response(s, job.room, ai_response)]

----------------------------------------------------------------------------
(* The inputs *)

UsernameInputs == {Absent, <<" ">>, alice, <<" ", "bob", " ">>}

RoomInputs == {Absent, <<" ">>, <<" ", "tech", " ">>, lobby}

\* an invalid username with one room, every valid username with every room
JoinData ==
    [username : {Absent, <<" ">>}, room : {Absent}]
        \cup [username : UsernameInputs \ {Absent, <<" ">>}, room : RoomInputs]

Hi == <<"h", "i">>

MessageInputs ==
    { Absent, <<" ", "h", "i", " ">>,
      AtAi,
      <<" ", "@", "a", "i", " ", "h">>,
      <<"h", "@", "A", "i">>,
      <<"@", "a", "i", "h", "@", "a", "i">> }

MessageData == [message : MessageInputs]

PlainMessageData == [message : {<<" ">>, <<" ", "h", "i", " ">>}]

ChatJoinData ==
    { [username |-> alice, room |-> Absent],
      [username |-> <<" ", "bob", " ">>, room |-> Absent],
      [username |-> <<" ", "bob", " ">>, room |-> <<" ", "tech", " ">>] }

----------------------------------------------------------------------------
(* The state after construction *)

NoSnapshot == [stage |-> "none"]

\* the sid of a request that comes from no connection
NoSid == MaxConns + 1

NoData == [none |-> TRUE]

Request(event, sid, data) == [event |-> event, sid |-> sid, data |-> data]

NoEpoch == [stage |-> "none"]

NoSubmission == [stage |-> "none"]

NoStartup == [pc |-> "none"]

InitServer ==
    /\ connected = {}
    /\ active_users = <<>>
    /\ chat_rooms = (general :> <<>>) @@ (tech :> <<>>) @@ (random :> <<>>)
    /\ sio_rooms = {}
    /\ ai_threads = EmptyBag
    /\ request = Request("none", NoSid, NoData)
    /\ emitted = <<>>
    /\ before_join = NoSnapshot
    /\ threads = <<>>
    /\ epoch = NoEpoch
    /\ submitted = NoSubmission

\* the server is up: its start is not followed
Init == InitServer /\ startup = NoStartup

\* the handler's result becomes the server state
Becomes(s) ==
    /\ connected' = s.connected
    /\ active_users' = s.active_users
    /\ chat_rooms' = s.chat_rooms
    /\ sio_rooms' = s.sio_rooms

----------------------------------------------------------------------------
(* One action per event, each handler run as a whole *)

\* a client connects: the 'connect' event
Connect(sid) ==
    /\ sid \notin connected
    /\ request' = Request("connect", sid, NoData)
    /\ LET r == handle_connect([Server EXCEPT !.connected = @ \cup {sid}], sid)
       IN  Becomes(r.state) /\ emitted' = r.emitted
    /\ before_join' = NoSnapshot
    /\ UNCHANGED <<ai_threads, threads, epoch>>

\* a client's connection ends: the 'disconnect' event, then the server's cleanup
Disconnect(sid) ==
    /\ sid \in connected
    /\ request' = Request("disconnect", sid, NoData)
    /\ LET r == handle_disconnect([Server EXCEPT !.connected = @ \ {sid}], sid)
       IN  Becomes(close_connection(r.state, sid)) /\ emitted' = r.emitted
    /\ before_join' = IF before_join.stage = "joined" /\ before_join.sid = sid
                      THEN [before_join EXCEPT !.stage = "disconnected"]
                      ELSE NoSnapshot
    /\ UNCHANGED <<ai_threads, threads, epoch>>

\* the 'join' event
Join(sid, data) ==
    /\ sid \in connected
    /\ request' = Request("join", sid, data)
    /\ LET r == handle_join(Server, sid, data)
       IN  /\ Becomes(r.state)
           /\ emitted' = r.emitted
           /\ before_join' =
                IF sid \notin DOMAIN r.state.active_users THEN NoSnapshot
                ELSE IF sid \notin DOMAIN active_users
                THEN [stage |-> "joined", sid |-> sid, room |-> r.state.active_users[sid].room,
                      active_users |-> active_users, chat_rooms |-> chat_rooms]
                ELSE IF request = Request("join", sid, data)
                THEN [stage |-> "repeated", sid |-> sid, room |-> r.state.active_users[sid].room,
                      active_users |-> active_users, chat_rooms |-> chat_rooms]
                ELSE NoSnapshot
    /\ UNCHANGED <<ai_threads, threads, epoch>>

\* the 'message' event, with at most cap AI threads running at once
MessageUpTo(sid, data, cap) ==
    /\ sid \in connected
    /\ request' = Request("message", sid, data)
    /\ LET r == handle_message(Server, sid, data)
       IN  /\ BagCardinality(ai_threads (+) r.started) <= cap
           /\ Becomes(r.state)
           /\ emitted' = r.emitted
           /\ ai_threads' = ai_threads (+) r.started
    /\ before_join' = NoSnapshot
    /\ UNCHANGED <<threads, epoch>>

\* the 'message' event
Message(sid, data) == MessageUpTo(sid, data, MaxJobs)

\* the 'get_rooms' event
GetRooms(sid) ==
    /\ sid \in connected
    /\ request' = Request("get_rooms", sid, NoData)
    /\ LET r == handle_get_rooms(Server, sid)
       IN  Becomes(r.state) /\ emitted' = r.emitted
    /\ before_join' = NoSnapshot
    /\ UNCHANGED <<ai_threads, threads, epoch>>

\* an HTTP client requests GET /rooms
RestRooms ==
    /\ request' = Request("rest_rooms", NoSid, NoData)
    /\ LET r == get_rooms(Server)
       IN  /\ Becomes(r.state)
           /\ emitted' = <<[event |-> "rooms_response", to |-> {}, rooms |-> r.response]>>
    /\ before_join' = NoSnapshot
    /\ UNCHANGED <<ai_threads, threads, epoch>>

\* a started AI thread runs: the backend answers or fails, the reply is broadcast
AiThread(job, outcome) ==
    /\ BagIn(job, ai_threads)
    /\ request' = Request("ai_thread", NoSid, [job |-> job, outcome |-> outcome])
    /\ LET r == generate_and_send_ai_response(Server, job, outcome)
       IN  Becomes(r.state) /\ emitted' = r.emitted
    /\ ai_threads' = ai_threads (-) SetToBag({job})
    /\ before_join' = NoSnapshot
    /\ UNCHANGED <<threads, epoch>>

\* Presence: every join input, plain messages, no AI thread
Next ==
    /\ \/ \E sid \in Sids : Connect(sid)
       \/ \E sid \in Sids : Disconnect(sid)
       \/ \E sid \in Sids, data \in JoinData : Join(sid, data)
       \/ \E sid \in Sids, data \in PlainMessageData : Message(sid, data)
       \/ \E sid \in Sids : GetRooms(sid)
       \/ RestRooms
    /\ UNCHANGED <<submitted, startup>>

Spec == Init /\ [][Next]_vars

\* Chat: every message input and the AI threads, joins of two rooms
NextChat ==
    /\ \/ \E sid \in Sids : Connect(sid)
       \/ \E sid \in Sids : Disconnect(sid)
       \/ \E sid \in Sids, data \in ChatJoinData : Join(sid, data)
       \/ \E sid \in Sids, data \in MessageData : Message(sid, data)
       \/ \E job \in BagToSet(ai_threads), outcome \in LlmOutcomes : AiThread(job, outcome)
    /\ UNCHANGED <<submitted, startup>>

SpecChat == Init /\ [][NextChat]_vars

\* Jobs: several AI threads at once, joins and disconnects while they run
MaxOverlap == 2

JobsMessageData == [message : {<<" ", "h", "i", " ">>, <<" ", "@", "a", "i", " ", "h">>}]

JobsOutcomes == {"ok", "timeout"}

JobsJoinData ==
    {[username |-> alice, room |-> Absent],
     [username |-> <<" ", "bob", " ">>, room |-> <<" ", "tech", " ">>]}

NextJobs ==
    /\ \/ \E sid \in Sids : Connect(sid)
       \/ \E sid \in Sids : Disconnect(sid)
       \/ \E sid \in Sids, data \in JobsJoinData : Join(sid, data)
       \/ \E sid \in Sids, data \in JobsMessageData : MessageUpTo(sid, data, MaxOverlap)
       \/ \E sid \in Sids : GetRooms(sid)
       \/ \E job \in BagToSet(ai_threads), outcome \in JobsOutcomes : AiThread(job, outcome)
    /\ UNCHANGED <<submitted, startup>>

SpecJobs == Init /\ [][NextJobs]_vars

\* Tracked: as Jobs, and the AI thread started last is remembered with the members
\* its room had then

\* no thread was started by this step: the thread started last is remembered while it
\* runs
NotSubmitted ==
    submitted' = IF submitted.stage = "running" THEN submitted ELSE NoSubmission

\* the thread the message handler started, and the members of its room at that time
Submitted(sid) ==
    IF ai_threads' = ai_threads
    THEN NotSubmitted
    ELSE LET job == CHOOSE j \in BagToSet(ai_threads' (-) ai_threads) : TRUE
         IN  submitted' = [stage |-> "running", sid |-> sid, job |-> job,
                           members |-> {chat_rooms[job.room][k] :
                                           k \in DOMAIN chat_rooms[job.room]}]

\* the thread started last has sent its reply
Completed(job) ==
    IF submitted.stage = "running" /\ submitted.job = job /\ ~ BagIn(job, ai_threads')
    THEN submitted' = [submitted EXCEPT !.stage = "completed"]
    ELSE NotSubmitted

NextTracked ==
    /\ \/ \E sid \in Sids : Connect(sid) /\ NotSubmitted
       \/ \E sid \in Sids : Disconnect(sid) /\ NotSubmitted
       \/ \E sid \in Sids, data \in JobsJoinData : Join(sid, data) /\ NotSubmitted
       \/ \E sid \in Sids, data \in JobsMessageData : Message(sid, data) /\ Submitted(sid)
       \/ \E job \in BagToSet(ai_threads), outcome \in JobsOutcomes :
             AiThread(job, outcome) /\ Completed(job)
    /\ UNCHANGED startup

SpecTracked == Init /\ [][NextTracked]_vars

----------------------------------------------------------------------------
(* The start of the server: __main__ waits for the AI backend, then serves *)

\* wait_for_ollama, line 42
max_retries == 10

\* the requests followed: more than max_retries, so that a wait that goes on is seen
MaxAttempts == 12

\* What GET OLLAMA_URL/api/tags can do: status 200, another status, or
\* requests.exceptions.RequestException (refused, timed out)
TagsOutcomes == {"ok", "bad_status", "exception"}

\* wait_for_ollama, lines 46-54: one pass of the loop body.  Only the except branch
\* sleeps and counts.
wait_for_ollama_pass(retry_count, outcome) ==
    CASE outcome = "ok" -> [pc |-> "returned_true", retry_count |-> retry_count]
      [] outcome = "bad_status" -> [pc |-> "wait", retry_count |-> retry_count]
      [] OTHER -> [pc |-> "wait", retry_count |-> retry_count + 1]

\* the process starts: __main__ calls wait_for_ollama (lines 42-43, 354)
InitStartup ==
    /\ InitServer
    /\ startup = [pc |-> "wait", retry_count |-> 0, attempts |-> 0]

\* the step leaves the chat server, which is not serving yet, alone
StartupStep(outcome) ==
    /\ request' = Request("startup", NoSid, [outcome |-> outcome])
    /\ emitted' = <<>>
    /\ UNCHANGED <<connected, active_users, chat_rooms, sio_rooms, ai_threads, before_join,
                   threads, epoch, submitted>>

\* wait_for_ollama, lines 45-54: the loop condition holds and a request is sent
WaitAttempt(outcome) ==
    /\ startup.pc = "wait"
    /\ startup.retry_count < max_retries
    /\ startup.attempts < MaxAttempts
    /\ LET r == wait_for_ollama_pass(startup.retry_count, outcome)
       IN  startup' = [pc |-> r.pc, retry_count |-> r.retry_count,
                       attempts |-> startup.attempts + 1]
    /\ StartupStep(outcome)

\* wait_for_ollama, lines 45 and 56-57: the loop condition fails
WaitGivesUp ==
    /\ startup.pc = "wait"
    /\ startup.retry_count >= max_retries
    /\ startup' = [startup EXCEPT !.pc = "returned_false"]
    /\ StartupStep("none")

\* __main__, lines 354-357 and 360-363: the model is pulled and the server runs
MainPullsModel ==
    /\ startup.pc = "returned_true"
    /\ startup' = [startup EXCEPT !.pc = "serving"]
    /\ StartupStep("none")

\* __main__, lines 358-363: the warning, and the server runs without the backend
MainStartsWithoutOllama ==
    /\ startup.pc = "returned_false"
    /\ startup' = [startup EXCEPT !.pc = "serving_without_ollama"]
    /\ StartupStep("none")

NextStartup ==
    \/ \E outcome \in TagsOutcomes : WaitAttempt(outcome)
    \/ WaitGivesUp
    \/ MainPullsModel
    \/ MainStartsWithoutOllama

SpecStartup == InitStartup /\ [][NextStartup]_vars

----------------------------------------------------------------------------
(* The handlers as threads.  SocketIO(async_mode='threading') runs every handler
   in a thread of its own and the code takes no lock, so the statements of two
   handlers interleave.  A step is one statement that reads or writes
   active_users, chat_rooms or the transport rooms.  A handler that runs while no
   other handler runs is the whole-handler action of Spec; once handlers overlap
   (an epoch), the model follows that one epoch to its end. *)

ThreadJoinData ==
    { [username |-> alice, room |-> Absent],
      [username |-> <<" ", "bob", " ">>, room |-> lobby],
      [username |-> <<" ">>, room |-> Absent] }

Finished == {"done", "raised"}

Quiescent == \A k \in 1..Len(threads) : threads[k].pc \in Finished

\* a handler starts while others run; the first one of an epoch records the state
Start(thread) ==
    /\ Len(threads) < MaxThreads
    /\ threads' = Append(threads, thread)
    /\ epoch' = IF threads = <<>> THEN [stage |-> "running", server |-> Server] ELSE epoch

\* thread k moves to pc, the rest of the record as given
Goto(k, pc, thread) ==
    /\ threads' = [threads EXCEPT ![k] = [thread EXCEPT !.pc = pc]]
    /\ UNCHANGED epoch

\* the data of the event a thread handles
DataOf(thread) ==
    IF thread.handler = "join" THEN [username |-> thread.username, room |-> thread.room]
    ELSE NoData

Silent(k) ==
    /\ request' = Request(threads[k].handler, threads[k].sid, DataOf(threads[k]))
    /\ emitted' = <<>>

\* a client connects, and a handler runs, while no other handler runs
ThreadConnect(sid) == threads = <<>> /\ Connect(sid)

AloneJoin(sid, data) == threads = <<>> /\ Join(sid, data)

AloneDisconnect(sid) == threads = <<>> /\ Disconnect(sid)

\* handle_get_rooms runs in a thread of its own, between the steps of the handlers
\* that are running
ThreadGetRooms(sid) == threads # <<>> /\ GetRooms(sid)

\* handle_join, lines 176-185: the locals, and the rejection of an empty username
JoinStart(sid, data) ==
    /\ sid \in connected
    /\ LET username == JoinUsernameOf(data)
           room == JoinRoomOf(data)
           thread == [handler |-> "join", sid |-> sid, username |-> username,
                      room |-> room, old_room |-> EmptyStr, pc |-> "check_session"]
       IN  /\ request' = Request("join", sid, DataOf(thread))
           /\ IF username = EmptyStr
              THEN /\ Start([thread EXCEPT !.pc = "done"])
                   /\ emitted' = <<ErrorEvent(ToSelf(Server, sid), "Username is required")>>
              ELSE /\ Start(thread)
                   /\ emitted' = <<>>
    /\ UNCHANGED <<connected, active_users, chat_rooms, sio_rooms, ai_threads, before_join>>

\* handle_join, line 188
JoinCheckSession(k) ==
    /\ threads[k].handler = "join" /\ threads[k].pc = "check_session"
    /\ Goto(k, IF threads[k].sid \in DOMAIN active_users THEN "read_old_room" ELSE "store",
            threads[k])
    /\ Silent(k)
    /\ UNCHANGED <<connected, active_users, chat_rooms, sio_rooms, ai_threads, before_join>>

\* handle_join, line 189; a KeyError when the session is gone
JoinReadOldRoom(k) ==
    /\ threads[k].handler = "join" /\ threads[k].pc = "read_old_room"
    /\ IF threads[k].sid \in DOMAIN active_users
       THEN Goto(k, "check_old_room",
                 [threads[k] EXCEPT !.old_room = active_users[threads[k].sid].room])
       ELSE Goto(k, "raised", threads[k])
    /\ Silent(k)
    /\ UNCHANGED <<connected, active_users, chat_rooms, sio_rooms, ai_threads, before_join>>

\* handle_join, line 190
JoinCheckOldRoom(k) ==
    /\ threads[k].handler = "join" /\ threads[k].pc = "check_old_room"
    /\ Goto(k, IF /\ threads[k].old_room \in DOMAIN chat_rooms
                  /\ InList(threads[k].sid, chat_rooms[threads[k].old_room])
               THEN "remove" ELSE "store",
            threads[k])
    /\ Silent(k)
    /\ UNCHANGED <<connected, active_users, chat_rooms, sio_rooms, ai_threads, before_join>>

\* handle_join, lines 191-192; a ValueError when the sid is no longer in the list
JoinRemove(k) ==
    /\ threads[k].handler = "join" /\ threads[k].pc = "remove"
    /\ LET sid == threads[k].sid
           old_room == threads[k].old_room
       IN  IF InList(sid, chat_rooms[old_room])
           THEN /\ chat_rooms' = [chat_rooms EXCEPT ![old_room] = ListRemove(@, sid)]
                /\ sio_rooms' = leave_room(Server, old_room, sid).sio_rooms
                /\ Goto(k, "store", threads[k])
           ELSE /\ UNCHANGED <<chat_rooms, sio_rooms>>
                /\ Goto(k, "raised", threads[k])
    /\ Silent(k)
    /\ UNCHANGED <<connected, active_users, ai_threads, before_join>>

\* handle_join, lines 196-200
JoinStore(k) ==
    /\ threads[k].handler = "join" /\ threads[k].pc = "store"
    /\ active_users' =
         join_store_user_info(Server, threads[k].sid, threads[k].username,
                              threads[k].room).active_users
    /\ Goto(k, "check_room", threads[k])
    /\ Silent(k)
    /\ UNCHANGED <<connected, chat_rooms, sio_rooms, ai_threads, before_join>>

\* handle_join, lines 203-204
JoinCheckRoom(k) ==
    /\ threads[k].handler = "join" /\ threads[k].pc = "check_room"
    /\ sio_rooms' = join_room(Server, threads[k].room, threads[k].sid).sio_rooms
    /\ Goto(k, IF threads[k].room \notin DOMAIN chat_rooms THEN "create_room"
               ELSE "check_member",
            threads[k])
    /\ Silent(k)
    /\ UNCHANGED <<connected, active_users, chat_rooms, ai_threads, before_join>>

\* handle_join, line 205
JoinCreateRoom(k) ==
    /\ threads[k].handler = "join" /\ threads[k].pc = "create_room"
    /\ chat_rooms' = DictPut(chat_rooms, threads[k].room, <<>>)
    /\ Goto(k, "check_member", threads[k])
    /\ Silent(k)
    /\ UNCHANGED <<connected, active_users, sio_rooms, ai_threads, before_join>>

\* handle_join, line 207
JoinCheckMember(k) ==
    /\ threads[k].handler = "join" /\ threads[k].pc = "check_member"
    /\ Goto(k, IF ~InList(threads[k].sid, chat_rooms[threads[k].room]) THEN "append"
               ELSE "emit",
            threads[k])
    /\ Silent(k)
    /\ UNCHANGED <<connected, active_users, chat_rooms, sio_rooms, ai_threads, before_join>>

\* handle_join, line 208
JoinAppend(k) ==
    /\ threads[k].handler = "join" /\ threads[k].pc = "append"
    /\ chat_rooms' = [chat_rooms EXCEPT ![threads[k].room] = ListAppend(@, threads[k].sid)]
    /\ Goto(k, "emit", threads[k])
    /\ Silent(k)
    /\ UNCHANGED <<connected, active_users, sio_rooms, ai_threads, before_join>>

\* handle_join, lines 211-234
JoinEmit(k) ==
    /\ threads[k].handler = "join" /\ threads[k].pc = "emit"
    /\ request' = Request("join", threads[k].sid, DataOf(threads[k]))
    /\ emitted' = join_emits(Server, threads[k].sid, threads[k].username, threads[k].room)
    /\ Goto(k, "done", threads[k])
    /\ UNCHANGED <<connected, active_users, chat_rooms, sio_rooms, ai_threads, before_join>>

\* the connection ends and handle_disconnect starts
DisconnectStart(sid) ==
    /\ sid \in connected
    /\ connected' = connected \ {sid}
    /\ request' = Request("disconnect", sid, NoData)
    /\ emitted' = <<>>
    /\ Start([handler |-> "disconnect", sid |-> sid, username |-> EmptyStr,
              room |-> EmptyStr, old_room |-> EmptyStr, pc |-> "check_session"])
    /\ UNCHANGED <<active_users, chat_rooms, sio_rooms, ai_threads, before_join>>

\* handle_disconnect, lines 151-154
DisconnectCheckSession(k) ==
    /\ threads[k].handler = "disconnect" /\ threads[k].pc = "check_session"
    /\ LET sid == threads[k].sid
       IN  IF sid \in DOMAIN active_users
           THEN Goto(k, "check_room",
                     [threads[k] EXCEPT !.username = active_users[sid].username,
                                        !.room = active_users[sid].room])
           ELSE Goto(k, "cleanup", threads[k])
    /\ Silent(k)
    /\ UNCHANGED <<connected, active_users, chat_rooms, sio_rooms, ai_threads, before_join>>

\* handle_disconnect, line 157
DisconnectCheckRoom(k) ==
    /\ threads[k].handler = "disconnect" /\ threads[k].pc = "check_room"
    /\ Goto(k, IF /\ threads[k].room \in DOMAIN chat_rooms
                  /\ InList(threads[k].sid, chat_rooms[threads[k].room])
               THEN "remove" ELSE "delete",
            threads[k])
    /\ Silent(k)
    /\ UNCHANGED <<connected, active_users, chat_rooms, sio_rooms, ai_threads, before_join>>

\* handle_disconnect, line 158; a ValueError when the sid is no longer in the list
DisconnectRemove(k) ==
    /\ threads[k].handler = "disconnect" /\ threads[k].pc = "remove"
    /\ LET sid == threads[k].sid
           room == threads[k].room
       IN  IF InList(sid, chat_rooms[room])
           THEN /\ chat_rooms' = [chat_rooms EXCEPT ![room] = ListRemove(@, sid)]
                /\ Goto(k, "delete", threads[k])
           ELSE /\ UNCHANGED chat_rooms
                /\ Goto(k, "raised", threads[k])
    /\ Silent(k)
    /\ UNCHANGED <<connected, active_users, sio_rooms, ai_threads, before_join>>

\* handle_disconnect, line 162; a KeyError when the session is gone
DisconnectDelete(k) ==
    /\ threads[k].handler = "disconnect" /\ threads[k].pc = "delete"
    /\ IF threads[k].sid \in DOMAIN active_users
       THEN /\ active_users' = DictDel(active_users, threads[k].sid)
            /\ Goto(k, "emit", threads[k])
       ELSE /\ UNCHANGED active_users
            /\ Goto(k, "raised", threads[k])
    /\ Silent(k)
    /\ UNCHANGED <<connected, chat_rooms, sio_rooms, ai_threads, before_join>>

\* handle_disconnect, lines 165-168
DisconnectEmit(k) ==
    /\ threads[k].handler = "disconnect" /\ threads[k].pc = "emit"
    /\ request' = Request("disconnect", threads[k].sid, NoData)
    /\ emitted' = disconnect_notify(Server, threads[k].sid, threads[k].room,
                                    threads[k].username)
    /\ Goto(k, "cleanup", threads[k])
    /\ UNCHANGED <<connected, active_users, chat_rooms, sio_rooms, ai_threads, before_join>>

\* the server takes the closed connection out of every transport room
DisconnectCleanup(k) ==
    /\ threads[k].handler = "disconnect" /\ threads[k].pc = "cleanup"
    /\ sio_rooms' = close_connection(Server, threads[k].sid).sio_rooms
    /\ Goto(k, "done", threads[k])
    /\ Silent(k)
    /\ UNCHANGED <<connected, active_users, chat_rooms, ai_threads, before_join>>

NextThreads ==
    /\ \/ \E sid \in Sids : ThreadConnect(sid)
       \/ \E sid \in Sids, data \in ThreadJoinData : AloneJoin(sid, data)
       \/ \E sid \in Sids : AloneDisconnect(sid)
       \/ \E sid \in Sids, data \in ThreadJoinData : JoinStart(sid, data)
       \/ \E sid \in Sids : DisconnectStart(sid)
       \/ \E sid \in Sids : ThreadGetRooms(sid)
       \/ \E k \in 1..Len(threads) :
             \/ JoinCheckSession(k)
             \/ JoinReadOldRoom(k)
             \/ JoinCheckOldRoom(k)
             \/ JoinRemove(k)
             \/ JoinStore(k)
             \/ JoinCheckRoom(k)
             \/ JoinCreateRoom(k)
             \/ JoinCheckMember(k)
             \/ JoinAppend(k)
             \/ JoinEmit(k)
             \/ DisconnectCheckSession(k)
             \/ DisconnectCheckRoom(k)
             \/ DisconnectRemove(k)
             \/ DisconnectDelete(k)
             \/ DisconnectEmit(k)
             \/ DisconnectCleanup(k)
    /\ UNCHANGED <<submitted, startup>>

SpecThreads == Init /\ [][NextThreads]_vars

\* the handler of a thread run as a whole
RunWhole(s, thread) ==
    IF thread.handler = "join"
    THEN handle_join(s, thread.sid, DataOf(thread)).state
    ELSE close_connection(
             handle_disconnect([s EXCEPT !.connected = @ \ {thread.sid}], thread.sid).state,
             thread.sid)

RECURSIVE RunInOrder(_, _, _)
RunInOrder(s, order, k) ==
    IF k > Len(order) THEN s
    ELSE RunInOrder(RunWhole(s, threads[order[k]]), order, k + 1)

Orders(n) == {f \in [1..n -> 1..n] : \A i \in 1..n : \A j \in 1..n : i # j => f[i] # f[j]}

\* the registry and directory that running the epoch's handlers one after the
\* other, in some order, can produce
SerialOutcomes ==
    { LET s == RunInOrder(epoch.server, order, 1)
      IN  <<s.active_users, s.chat_rooms>> : order \in Orders(Len(threads)) }

----------------------------------------------------------------------------
(* Claims *)

\* the connection ids in a member list
Members(l) == {l[k] : k \in 1..Len(l)}

\* how often x occurs in a list
Count(x, l) == Cardinality({k \in 1..Len(l) : l[k] = x})

\* the username and the room a join's data asks for
JoinUsername(data) == Strip(Get(data.username, EmptyStr))
JoinRoom(data) == Strip(Get(data.room, general))

C3_JoinDisconnectRestoresExactly ==
    before_join.stage = "disconnected" =>
        /\ active_users = before_join.active_users
        /\ chat_rooms = before_join.chat_rooms

\* C3 amended: active_users is as before the join, and chat_rooms is as before
\* except that the requested room, when the directory did not have it, is now
\* there with an empty member list.
C3_JoinDisconnectRestores ==
    before_join.stage = "disconnected" =>
        /\ active_users = before_join.active_users
        /\ chat_rooms = IF before_join.room \in DOMAIN before_join.chat_rooms
                        THEN before_join.chat_rooms
                        ELSE DictPut(before_join.chat_rooms, before_join.room, <<>>)
        /\ \A room \in DOMAIN chat_rooms : ~InList(before_join.sid, chat_rooms[room])

\* a first join into a room that has another member, then the disconnect
C3_Witness ==
    /\ before_join.stage = "disconnected"
    /\ request.event = "disconnect"
    /\ chat_rooms[before_join.room] # <<>>

\* C4: a successful join of a connection whose session is in room A leaves it out of
\* A's member list (when the new room is another one) and exactly once in the new
\* room's list; when the join that ran last was the identical join, the registry
\* and the directory do not change.
C4_SwitchMovesOnceAndRejoinIsIdempotent ==
    [][ ( /\ request'.event = "join"
          /\ request'.sid \in DOMAIN active_users
          /\ JoinUsername(request'.data) # EmptyStr )
        => LET sid == request'.sid
               A == active_users[sid].room
               B == JoinRoom(request'.data)
           IN  /\ active_users'[sid].room = B
               /\ A # B => ~InList(sid, chat_rooms'[A])
               /\ Count(sid, chat_rooms'[B]) = 1
               /\ \A room \in DOMAIN chat_rooms' \ {B} : ~InList(sid, chat_rooms'[room])
               /\ request = request' =>
                     active_users' = active_users /\ chat_rooms' = chat_rooms
      ]_vars

\* a connection has repeated its join into a room that has another member
C4_Witness ==
    /\ before_join.stage = "repeated"
    /\ Len(chat_rooms[before_join.room]) > 1
    /\ active_users = before_join.active_users


\* the text a message event carries, trimmed
MessageText(data) == Strip(Get(data.message, EmptyStr))

\* C5: a message event from a joined connection whose trimmed text is not empty is
\* broadcast once, as a message of type 'user' with the sender's username and the
\* trimmed text, to exactly the members of the room of the sender's session, the
\* sender among them.
C5_UserMessageReachesRoom ==
    [][ ( /\ request'.event = "message"
          /\ request'.sid \in DOMAIN active_users
          /\ MessageText(request'.data) # EmptyStr )
        => LET sid == request'.sid
               session == active_users[sid]
           IN  /\ emitted' = << MessageEvent(Members(chat_rooms[session.room]),
                                             session.username,
                                             MessageText(request'.data), "user") >>
               /\ sid \in emitted'[1].to
      ]_vars

\* a message has reached its sender and another member of the room
C5_Witness ==
    /\ request.event = "message"
    /\ Len(emitted) = 1
    /\ emitted[1].event = "message"
    /\ emitted[1].message = Hi
    /\ request.sid \in emitted[1].to
    /\ Cardinality(emitted[1].to) > 1

\* C6: a message event from a connection without a session emits one error event,
\* to the sender only, and nothing else; it starts no AI thread and changes neither
\* the registry nor the directory nor the transport rooms.
C6_NotJoinedMessageIsRejected ==
    [][ ( /\ request'.event = "message"
          /\ request'.sid \notin DOMAIN active_users )
        => /\ Len(emitted') = 1
           /\ emitted'[1].event = "error"
           /\ emitted'[1].to = {request'.sid}
           /\ UNCHANGED <<connected, active_users, chat_rooms, sio_rooms, ai_threads>>
      ]_vars

\* a connection without a session has sent an AI-directed message while another
\* connection is joined
C6_Witness ==
    /\ request.event = "message"
    /\ request.sid \notin DOMAIN active_users
    /\ MessageText(request.data) = AtAi
    /\ emitted[1].event = "error"
    /\ active_users # <<>>

\* s with its first occurrence of t, compared without case, removed
RECURSIVE RemoveFirstAnyCase(_, _)
RemoveFirstAnyCase(s, t) ==
    IF s = <<>> THEN <<>>
    ELSE IF StartsWith(Lower(s), t) THEN SubSeq(s, Len(t) + 1, Len(s))
    ELSE <<Head(s)>> \o RemoveFirstAnyCase(Tail(s), t)

\* the prompt the claim describes
ClaimedPrompt(message) ==
    LET p == Strip(RemoveFirstAnyCase(message, AtAi))
    IN  IF p = EmptyStr THEN message ELSE p

\* C7 as claimed: the prompt an AI thread sends to the backend is the message with
\* the first occurrence of @ai, in any letter case, removed and the result trimmed,
\* or the whole message when that is empty.
C7_PromptDropsFirstAtAiAnyCase ==
    request.event = "ai_thread" =>
        emitted[1] = GenerateRequest(ClaimedPrompt(request.data.job.message))

\* the text contains @ai in some letter case
ContainsAtAiAnyCase(text) ==
    \E k \in 1..Len(text) :
        /\ k + 2 <= Len(text)
        /\ LowerChar(text[k]) = "@"
        /\ LowerChar(text[k + 1]) = "a"
        /\ LowerChar(text[k + 2]) = "i"

\* C8: a message event starts one AI thread, for the room of the sender's session
\* and with the trimmed text, exactly when it is accepted and its trimmed text
\* contains @ai in some letter case; otherwise it starts none.
C8_AiThreadStartedIffAtAi ==
    [][ request'.event = "message"
        => LET sid == request'.sid
               text == MessageText(request'.data)
           IN  ai_threads' =
                 IF sid \in DOMAIN active_users /\ text # EmptyStr /\ ContainsAtAiAnyCase(text)
                 THEN ai_threads (+) SetToBag({[room |-> active_users[sid].room,
                                                message |-> text]})
                 ELSE ai_threads
      ]_vars

\* an accepted message with @Ai inside the text has started a thread
C8_Witness ==
    /\ request.event = "message"
    /\ MessageText(request.data) = <<"h", "@", "A", "i">>
    /\ request.sid \in DOMAIN active_users
    /\ BagIn([room |-> active_users[request.sid].room, message |-> <<"h", "@", "A", "i">>],
             ai_threads)

\* C9: the disconnect of a connection that has a session removes it from its room's
\* member list, deletes its session, leaves every other session and membership as
\* it was, and emits one user_left with its username to the remaining members.
C9_DisconnectLeavesRoom ==
    [][ ( /\ request'.event = "disconnect"
          /\ request'.sid \in DOMAIN active_users )
        => LET sid == request'.sid
               room == active_users[sid].room
               username == active_users[sid].username
           IN  /\ active_users' = [other \in DOMAIN active_users \ {sid} |-> active_users[other]]
               /\ chat_rooms' =
                    [r \in DOMAIN chat_rooms |->
                        IF r = room THEN SelectSeq(chat_rooms[r], LAMBDA x : x # sid)
                        ELSE chat_rooms[r]]
               /\ emitted' = <<UserLeftEvent(Members(chat_rooms'[room]), username)>>
      ]_vars

\* a member has disconnected and the other member of its room was told
C9_Witness ==
    /\ request.event = "disconnect"
    /\ Len(emitted) = 1
    /\ emitted[1].event = "user_left"
    /\ emitted[1].to # {}
    /\ request.sid \notin emitted[1].to

\* C10: an AI thread whose backend call fails emits one message of type 'ai' from
\* 'AI Assistant' to the members of its room, emits no error event, and changes
\* nothing of the server's state.
C10_FailedAiCallBecomesAiMessage ==
    [][ ( /\ request'.event = "ai_thread"
          /\ request'.data.outcome \in LlmFailures )
        => LET room == request'.data.job.room
               sent == {k \in 1..Len(emitted') : emitted'[k].event # "generate"}
           IN  /\ Cardinality(sent) = 1
               /\ \A k \in sent :
                     /\ emitted'[k].event = "message"
                     /\ emitted'[k].type = "ai"
                     /\ emitted'[k].username = AIAssistant
                     /\ emitted'[k].to = Members(chat_rooms[room])
               /\ UNCHANGED <<connected, active_users, chat_rooms, sio_rooms>>
      ]_vars

\* the backend has timed out and the members of the room got the AI's message
C10_Witness ==
    /\ request.event = "ai_thread"
    /\ request.data.outcome = "timeout"
    /\ Len(emitted) = 2
    /\ emitted[2].event = "message"
    /\ emitted[2].to # {}


\* C2 as claimed: when the handlers that ran concurrently have all returned, the
\* registry and the directory are what running those handlers one after the other,
\* in some order, produces.
C2_HandlersAreSerializable ==
    (threads # <<>> /\ Quiescent) => <<active_users, chat_rooms>> \in SerialOutcomes

----------------------------------------------------------------------------
(* AI threads and the chat events *)

AiMessage == <<"@", "a", "i">>

\* the handler of a chat event of connection sid can run to its end now, with every
\* running AI thread still running after it (the join is one that is rejected)
HandlersRunBesideThreads(sid) ==
    /\ sid \in connected =>
          /\ ENABLED (Disconnect(sid) /\ ai_threads' = ai_threads)
          /\ ENABLED (GetRooms(sid) /\ ai_threads' = ai_threads)
          /\ ENABLED (Join(sid, [username |-> Absent, room |-> Absent])
                        /\ ai_threads' = ai_threads)
          /\ ENABLED (MessageUpTo(sid, [message |-> Hi], MaxOverlap)
                        /\ ai_threads' = ai_threads)
          /\ BagCardinality(ai_threads) < MaxOverlap =>
                ENABLED (MessageUpTo(sid, [message |-> AiMessage], MaxOverlap)
                           /\ \A job \in BagToSet(ai_threads) :
                                 CopiesIn(job, ai_threads') >= CopiesIn(job, ai_threads))
    /\ sid \notin connected => ENABLED (Connect(sid) /\ ai_threads' = ai_threads)

\* a running AI thread can finish now, whatever the backend does, and leaves every
\* other running thread running
ThreadsRunBesideThreads ==
    \A job \in BagToSet(ai_threads), outcome \in JobsOutcomes :
        ENABLED (AiThread(job, outcome) /\ ai_threads' = ai_threads (-) SetToBag({job}))

\* the handler of a message for the AI returned with its thread still running
ReturnedBeforeThread ==
    ( /\ request.event = "message"
      /\ request.sid \in DOMAIN active_users
      /\ ContainsAtAiAnyCase(MessageText(request.data)) )
    => BagIn([room |-> active_users[request.sid].room,
              message |-> MessageText(request.data)], ai_threads)

\* C11: the handler of a message for the AI returns with its thread still running;
\* while AI threads run, the handlers of connect, disconnect, join, get_rooms and
\* message of every connection can run, every handler that runs (every join
\* included) ends with those threads still running, and every thread can finish,
\* which ends no other thread
C11_NothingWaitsForAiThreads ==
    /\ [](ReturnedBeforeThread)
    /\ [](ai_threads # EmptyBag
            => /\ \A sid \in Sids : HandlersRunBesideThreads(sid)
               /\ ThreadsRunBesideThreads)
    /\ [][ /\ request'.event # "ai_thread"
              => \A job \in BagToSet(ai_threads) :
                    CopiesIn(job, ai_threads') >= CopiesIn(job, ai_threads)
           /\ request'.event = "ai_thread"
              => ai_threads' = ai_threads (-) SetToBag({request'.data.job})
         ]_vars

\* a connection joined a room while two AI threads, of two rooms, were running
C11_Witness ==
    /\ request.event = "join"
    /\ request.sid \in DOMAIN active_users
    /\ Cardinality(BagToSet(ai_threads)) > 1

\* an event of the last step carries a message of the AI
EmitsAiMessage(events) ==
    \E k \in DOMAIN events : events[k].event = "message" /\ events[k].type = "ai"

\* the message handler accepted the text of its request from a member
AcceptedMessage ==
    /\ request'.event = "message"
    /\ request'.sid \in DOMAIN active_users
    /\ MessageText(request'.data) # EmptyStr

\* C12: a message for the AI is broadcast to the room by the handler that starts the
\* thread, which sends nothing of the AI; a message of the AI is sent only by a thread
\* started in an earlier step; and a message a member sends while threads run is
\* broadcast by its own handler, which leaves those threads running, so before
\* their replies
C12_UserMessagesPrecedeAiReply ==
    [][ /\ AcceptedMessage
           => /\ emitted' = <<MessageEvent(Members(chat_rooms[active_users[request'.sid].room]),
                                           active_users[request'.sid].username,
                                           MessageText(request'.data), "user")>>
              /\ \A job \in BagToSet(ai_threads) :
                    CopiesIn(job, ai_threads') >= CopiesIn(job, ai_threads)
              /\ ContainsAtAiAnyCase(MessageText(request'.data))
                    => CopiesIn([room |-> active_users[request'.sid].room,
                                 message |-> MessageText(request'.data)], ai_threads')
                          = 1 + CopiesIn([room |-> active_users[request'.sid].room,
                                          message |-> MessageText(request'.data)], ai_threads)
        /\ EmitsAiMessage(emitted')
           => /\ request'.event = "ai_thread"
              /\ BagIn(request'.data.job, ai_threads)
      ]_vars

\* a member's message reached the room while the thread started by an earlier message
\* to the AI in that room was still running
C12_Witness ==
    /\ request.event = "message"
    /\ request.sid \in DOMAIN active_users
    /\ MessageText(request.data) = Hi
    /\ Len(emitted) = 1
    /\ Cardinality(emitted[1].to) > 1
    /\ \E job \in BagToSet(ai_threads) : job.room = active_users[request.sid].room

\* C13: the reply of an AI thread goes to the members its room has when the thread
\* sends it, whoever they were when the thread was started: a connection that joined
\* since receives it, one that left does not, and it is sent whether or not the
\* connection that started the thread is still in the room
C13_ReplyGoesToMembersAtCompletion ==
    [][ request'.event = "ai_thread"
        => LET job == request'.data.job
               now == Members(chat_rooms[job.room])
           IN  /\ Len(emitted') = 2
               /\ emitted'[2].event = "message"
               /\ emitted'[2].type = "ai"
               /\ emitted'[2].username = AIAssistant
               /\ emitted'[2].to = now
               /\ submitted'.stage = "completed"
                     => \A sid \in Sids :
                           /\ (sid \notin submitted.members /\ sid \in now)
                                 => sid \in emitted'[2].to
                           /\ (sid \in submitted.members /\ sid \notin now)
                                 => sid \notin emitted'[2].to
      ]_vars

\* a thread sent its reply after the connection that started it had left the room
\* and another had joined: the reply reached the newcomer
C13_Witness ==
    /\ request.event = "ai_thread"
    /\ submitted.stage = "completed"
    /\ submitted.sid \in submitted.members
    /\ submitted.sid \notin emitted[2].to
    /\ \E sid \in emitted[2].to : sid \notin submitted.members

----------------------------------------------------------------------------
(* Join, disconnect and the room listings *)

\* the join handler accepted the username of its request
AcceptedJoin ==
    /\ request'.event = "join"
    /\ JoinUsername(request'.data) # EmptyStr

\* C14: an accepted join emits three events in this order: a system message to the
\* joining connection only; user_joined with the username to the other members of the
\* room and not to the joiner; room_info to the joining connection only, with the
\* usernames of the members the room then has, the joiner among them, and their
\* number
C14_JoinEmitsWelcomeNoticeSnapshot ==
    [][ AcceptedJoin
        => LET sid == request'.sid
               room == JoinRoom(request'.data)
               list == chat_rooms'[room]
           IN  /\ Len(emitted') = 3
               /\ emitted'[1].event = "message"
               /\ emitted'[1].type = "system"
               /\ emitted'[1].to = {sid}
               /\ emitted'[2].event = "user_joined"
               /\ emitted'[2].username = JoinUsername(request'.data)
               /\ emitted'[2].to = Members(list) \ {sid}
               /\ emitted'[3].event = "room_info"
               /\ emitted'[3].to = {sid}
               /\ emitted'[3].room = room
               /\ emitted'[3].users = [k \in 1..Len(list) |-> active_users'[list[k]].username]
               /\ emitted'[3].user_count = Cardinality(Members(list))
               /\ sid \in Members(list)
      ]_vars

\* a connection joined a room that had a member: the notice went to that member and
\* the snapshot names both
C14_Witness ==
    /\ request.event = "join"
    /\ Len(emitted) = 3
    /\ emitted[2].to # {}
    /\ request.sid \notin emitted[2].to
    /\ emitted[3].user_count = 2

\* C15: a join whose username is absent or blank emits one error to the requesting
\* connection and nothing else, and leaves the sessions, the rooms and the transport
\* rooms as they were, also when the connection has a session
C15_JoinWithoutUsernameIsRejected ==
    [][ ( /\ request'.event = "join"
          /\ JoinUsername(request'.data) = EmptyStr )
        => /\ Len(emitted') = 1
           /\ emitted'[1].event = "error"
           /\ emitted'[1].to = {request'.sid}
           /\ UNCHANGED <<connected, active_users, chat_rooms, sio_rooms, ai_threads>>
      ]_vars

\* a connection that has a session in a room with another member sent a join with a
\* blank username
C15_Witness ==
    /\ request.event = "join"
    /\ request.data.username = <<" ">>
    /\ request.sid \in DOMAIN active_users
    /\ Len(chat_rooms[active_users[request.sid].room]) > 1
    /\ Len(emitted) = 1

\* the room field of a join is absent, empty or blank
RoomFieldIsBlank(data) == Strip(Get(data.room, EmptyStr)) = EmptyStr

\* C16: an accepted join whose room field is absent, empty or blank puts the
\* connection in room 'general', and no room with the empty name exists
C16_BlankRoomFallsBackToGeneral ==
    /\ EmptyStr \notin DOMAIN chat_rooms
    /\ ( /\ request.event = "join"
         /\ JoinUsername(request.data) # EmptyStr
         /\ RoomFieldIsBlank(request.data) )
       => /\ request.sid \in DOMAIN active_users
          /\ active_users[request.sid].room = general
          /\ InList(request.sid, chat_rooms[general])

\* an event of the last step is a user_left notice
EmitsUserLeft(events) == \E k \in DOMAIN events : events[k].event = "user_left"

\* C17: when a connection that has a session in one room joins another, a user_left
\* notice with its username goes to the members left in the old room and user_joined
\* to the other members of the new room; when it joins the room it is in, no
\* user_left notice is emitted
C17_SwitchNotifiesOldRoom ==
    [][ ( AcceptedJoin /\ request'.sid \in DOMAIN active_users )
        => LET sid == request'.sid
               old_room == active_users[sid].room
               room == JoinRoom(request'.data)
           IN  /\ room # old_room
                     => /\ \E k \in DOMAIN emitted' :
                              /\ emitted'[k].event = "user_left"
                              /\ emitted'[k].username = active_users[sid].username
                              /\ emitted'[k].to = Members(chat_rooms'[old_room])
                        /\ \E k \in DOMAIN emitted' :
                              /\ emitted'[k].event = "user_joined"
                              /\ emitted'[k].to = Members(chat_rooms'[room]) \ {sid}
               /\ room = old_room => ~ EmitsUserLeft(emitted')
      ]_vars

\* C18: the disconnect of a connection that has no session changes neither the
\* sessions nor the rooms and emits nothing; and after any disconnect, running the
\* handler once more for the same connection changes nothing and emits nothing
C18_DisconnectWithoutSessionDoesNothing ==
    [][ request'.event = "disconnect"
        => /\ request'.sid \notin DOMAIN active_users
                 => /\ UNCHANGED <<active_users, chat_rooms, ai_threads>>
                    /\ emitted' = <<>>
           /\ LET again == handle_disconnect(Server', request'.sid)
              IN  /\ again.state = Server'
                  /\ again.emitted = <<>>
      ]_vars

\* a connection that had no session disconnected while another had one
C18_Witness ==
    /\ request.event = "disconnect"
    /\ emitted = <<>>
    /\ DOMAIN active_users # {}

\* the listing the claim describes: every room of the directory, with the usernames
\* of its members that have a session, in the order of the list, and their number
Listing ==
    [room \in DOMAIN chat_rooms |->
        LET with_session == SelectSeq(chat_rooms[room], LAMBDA sid : sid \in DOMAIN active_users)
        IN  [user_count |-> Len(with_session),
             users |-> [k \in 1..Len(with_session) |-> active_users[with_session[k]].username]]]

\* C19: in every state get_rooms and GET /rooms compute the same listing, one entry
\* for each room of the directory, empty rooms too, with the usernames of the
\* members that have a session and their number; each sends the listing of the state
\* it ran in and changes neither the sessions nor the rooms
C19_RoomsListEqualsRestRooms ==
    /\ [](/\ rooms_info(Server) = get_rooms(Server).response
          /\ get_rooms(Server).response = Listing)
    /\ [][ request'.event \in {"get_rooms", "rest_rooms"}
           => /\ UNCHANGED <<connected, active_users, chat_rooms, sio_rooms>>
              /\ Len(emitted') = 1
              /\ emitted'[1].rooms = Listing
              /\ request'.event = "get_rooms"
                    => emitted'[1].event = "rooms_list" /\ emitted'[1].to = {request'.sid}
         ]_vars

\* GET /rooms answered with a room of two users and an empty room
C19_Witness ==
    /\ request.event = "rest_rooms"
    /\ \E room \in DOMAIN emitted[1].rooms : emitted[1].rooms[room].user_count = 2
    /\ \E room \in DOMAIN emitted[1].rooms : emitted[1].rooms[room].user_count = 0
    /\ emitted[1].rooms = rooms_info(Server)

\* C20: a rooms listing computed while one join, room switch or disconnect of another
\* connection runs is the listing of the state before that handler or of the state
\* after it
C20_ListingIsPointInTime ==
    ( /\ request.event = "get_rooms"
      /\ Len(threads) = 1
      /\ threads[1].sid # request.sid )
    => \/ emitted[1].rooms = rooms_info(epoch.server)
       \/ emitted[1].rooms = rooms_info(RunWhole(epoch.server, threads[1]))

----------------------------------------------------------------------------
(* The start of the server *)

\* C21: wait_for_ollama sends at most max_retries requests, whatever the backend
\* does: it returns true when a request gets status 200, and false when max_retries
\* requests have failed, by an exception or by another status, and then the server
\* starts without the backend
C21_WaitEndsWithinMaxRetries ==
    /\ startup.attempts <= max_retries
    /\ startup.pc = "returned_true" => request.data.outcome = "ok"
    /\ startup.pc = "returned_false" => startup.attempts = max_retries
    /\ startup.pc = "serving_without_ollama" => startup.attempts = max_retries

----------------------------------------------------------------------------
(* The transport rooms and the room directory *)

\* the connections the transport holds in a room
TransportRoom(room) == {sid \in Sids : <<room, sid>> \in sio_rooms}

\* the open connections on the room's list of the directory
LiveMembers(rooms, room) == Members(rooms[room]) \cap connected

\* the same after the step
LiveMembersAfter(room) == Members(chat_rooms'[room]) \cap connected'

TransportMatchesDirectory ==
    /\ \A room \in DOMAIN chat_rooms : TransportRoom(room) = LiveMembers(chat_rooms, room)
    /\ \A p \in sio_rooms : p[1] \in DOMAIN chat_rooms

============================================================================
